---------------------------- MODULE Spec2Model ----------------------------
(***************************************************************************)
(* Model of src/src/vscodeTestProvider.ts: the Run Coordinator             *)
(* (VscodeTestProvider.runTests and its promise queue), the Run Scanner    *)
(* (scanTestOutput), the Pending-Test Index Builder (getPendingTestMap)    *)
(* and the Location Resolver (tryDeriveLocation).                          *)
(*                                                                         *)
(* One step of the model is one callback or continuation of the            *)
(* single-threaded event loop: a call of runTests, the continuation after  *)
(* an await, one event handler, one promise reaction.                      *)
(***************************************************************************)
EXTENDS Naturals, Integers, Sequences, FiniteSets, TLC

\* ------------------------------------------------------------------ bounds
MaxRuns == 2        \* run requests (calls of runTests) in one behaviour
MaxEvents == 3      \* events delivered to the scan of a single run (ScanSpec)
MaxQueueEvents == 2 \* events delivered to the scans of queued runs, together (Spec)

Runs == 1..MaxRuns
NoRun == 0

\* ------------------------------------------------- the test-item hierarchy
\* A fixed hierarchy of test items (testTree): one root, two files, three
\* cases.  Two cases in different files carry the same fully-qualified title.
NoCase == 0
Nodes == 1..6
Kind(n) ==
  CASE n = 1 -> "root"
    [] n \in {2, 3} -> "file"
    [] OTHER -> "case"
\* children of a node; for a file, its children as they are after refresh()
Children(n) ==
  CASE n = 1 -> <<2, 3>>
    [] n = 2 -> <<4, 5>>
    [] n = 3 -> <<6>>
    [] OTHER -> <<>>
fullLabel(n) ==
  CASE n = 4 -> "A"
    [] n = 5 -> "B"
    [] n = 6 -> "A"
    [] OTHER -> ""
Titles == {"A", "B"}
Cases == {n \in Nodes : Kind(n) = "case"}
\* req.tests of a run request
Requests == {<<1>>, <<3>>}

\* the children a file item holds before refresh() re-parses the file
StaleChildren(n) == <<>>
\* where a case is declared: its uri and the start of its range <<line, character>>
CaseUri(n) ==
  CASE n \in {4, 5} -> "file:///src/a.test.ts"
    [] OTHER -> "file:///src/b.test.ts"
RangeStart(n) ==
  CASE n = 4 -> <<3, 2>>
    [] n = 5 -> <<9, 2>>
    [] OTHER -> <<3, 4>>

\* A hierarchy as a value: the kind of each item, its children as they are
\* now, the children a file has once refreshed, and the title of each case.
TheTree ==
  [kind |-> [n \in Nodes |-> Kind(n)],
   children |-> [n \in Nodes |-> IF Kind(n) = "file" THEN StaleChildren(n) ELSE Children(n)],
   refreshed |-> [n \in Nodes |-> Children(n)],
   label |-> [n \in Nodes |-> fullLabel(n)]]

\* (mutant of MapSet) a title that is already in the map keeps its case
MapSetKeepsFirst(m, k, v) ==
  [t \in (DOMAIN m) \cup {k} |-> IF t \in DOMAIN m THEN m[t] ELSE v]

\* A Map<string, TestCase> is a function from the titles it holds to cases.
EmptyMap == [t \in {} |-> NoCase]
MapSet(m, k, v) == [t \in (DOMAIN m) \cup {k} |-> IF t = k THEN v ELSE m[t]]
MapGet(m, k) == IF k \in DOMAIN m THEN m[k] ELSE NoCase
MapDelete(m, k) == [t \in (DOMAIN m) \ {k} |-> m[t]]

\* getPendingTestMap on hierarchy h.  The walk's state: the work stack
\* `queue` of batches, the rest of the batch the for loop is in, `titleMap`,
\* the file whose refresh() the walk awaits (NoItem: none) and, as a record
\* of what the walk did, the files it refreshed and the cases it visited, in
\* order.
NoItem == 0
\* One item of a batch: on a file refresh() is called and the walk awaits
\* it, a case is set in titleMap under its fullLabel, any other item has
\* its children pushed.
VisitChild(h, child, st) ==
  IF h.kind[child] = "file"
    THEN [st EXCEPT !.refreshed = @ \cup {child}, !.awaiting = child]
  ELSE IF h.kind[child] = "case"
    THEN [st EXCEPT !.titleMap = MapSet(@, h.label[child], child),
                    !.visited = Append(@, child)]
  ELSE [st EXCEPT !.queue = Append(@, h.children[child])]

\* for (const child of batch), up to the end of the batch or to an await.
\* Each iteration works on the value s the one before left.
RECURSIVE VisitBatch(_, _)
VisitBatch(h, st) ==
  CHOOSE out \in
    {IF s.batch = <<>> \/ s.awaiting # NoItem THEN s
     ELSE VisitBatch(h, VisitChild(h, Head(s.batch), [s EXCEPT !.batch = Tail(@)])) :
       s \in {st}} : TRUE

\* while (queue.length): pop the last batch and visit it, up to the end of
\* the walk or to an await
RECURSIVE DrainQueue(_, _)
DrainQueue(h, st) ==
  CHOOSE out \in
    {IF s.awaiting # NoItem THEN s
     ELSE IF s.queue = <<>> THEN s
     ELSE DrainQueue(h, VisitBatch(h, [s EXCEPT !.batch = s.queue[Len(s.queue)],
                                                !.queue = SubSeq(@, 1, Len(@) - 1)])) :
       s \in {VisitBatch(h, st)}} : TRUE

\* the call: the part of the walk that runs before the first await
WalkCall(h, tests) ==
  DrainQueue(h, [queue |-> <<tests>>, batch |-> <<>>, titleMap |-> EmptyMap,
                 awaiting |-> NoItem, refreshed |-> {}, visited |-> <<>>])

\* the awaited refresh() is over: the file's children, as they are now, are
\* pushed and the walk goes on to its next await or to its end
WalkResume(h, st) ==
  DrainQueue(h, [st EXCEPT !.queue = Append(@, h.refreshed[st.awaiting]),
                           !.awaiting = NoItem])

\* the walk is over
WalkOver(st) == st.awaiting = NoItem

\* the walk from the requested items, to its end
RECURSIVE WalkOn(_, _)
WalkOn(h, st) ==
  CHOOSE out \in {IF WalkOver(s) THEN s ELSE WalkOn(h, WalkResume(h, s)) : s \in {st}} : TRUE
Walk(h, tests) == WalkOn(h, WalkCall(h, tests))

\* the runs work on the hierarchy above; the tasks of a run's walk change
\* nothing but the walk's own state, and the run is chained when it is over
getPendingTestMap(tests) == Walk(TheTree, tests).titleMap

\* ------------------------------------------------------------ run events
Durations == {5, 12}
\* the err text of a fail event
Errs == {"AssertionError\n+ actual: 1\n- expected: 2"}
\* message.split('\n') of the err texts
Split(message) ==
  IF message = "AssertionError\n+ actual: 1\n- expected: 2"
    THEN <<"AssertionError", "+ actual: 1", "- expected: 2">>
    ELSE <<message>>
\* the optional stack of a fail event: absent, or a trace naming a file URI
NoStack == ""
Stacks == {NoStack, "file:///a.js:5:3"}
\* /(file:\/{3}.+):([0-9]+):([0-9]+)/.exec(stack): the three captures, or <<>>
StackParts(s) == IF s = "file:///a.js:5:3" THEN <<"file:///a.js", 5, 3>> ELSE <<>>
\* stack || err
StackOrErr(stack, err) == IF stack = NoStack THEN err ELSE stack

\* ------------------------------------------------- Diagnostic Formatter
\* A message is the sequence of its lines (split and join on '\n').
\* l.includes('+ actual'), for the lines the model draws
IncludesActual(l) == l \in {"+ actual: 1", "  + actual - expected"}
\* lines.findIndex(l => l.includes('+ actual')): 0-based, from position i on
NotFound == -1
RECURSIVE findIndexFrom(_, _)
findIndexFrom(lines, i) ==
  IF i >= Len(lines) THEN NotFound
  ELSE IF IncludesActual(lines[i + 1]) THEN i
  ELSE findIndexFrom(lines, i + 1)

\* (mutant of findIndex) the last line that holds the marker is taken
RECURSIVE findLastIndexFrom(_, _)
findLastIndexFrom(lines, i) ==
  IF i < 0 THEN NotFound
  ELSE IF IncludesActual(lines[i + 1]) THEN i
  ELSE findLastIndexFrom(lines, i - 1)
findLastIndex(lines) == findLastIndexFrom(lines, Len(lines) - 1)

findIndex(lines) == findIndexFrom(lines, 0)

\* the opening and closing code fences; <fence> stands for the three
\* grave accents, which a string of this language cannot hold
DiffFence == "<fence>diff"
CloseFence == "<fence>"
\* tryMakeMarkdown: the message itself, or a MarkdownString of the lines with
\* the marker line replaced by the opening fence and a closing fence pushed
tryMakeMarkdown(lines) ==
  LET start == findIndex(lines) IN
    IF start = NotFound
      THEN [type |-> "string", lines |-> lines]
      ELSE [type |-> "MarkdownString",
            lines |-> Append([lines EXCEPT ![start + 1] = DiffFence], CloseFence)]

\* --------------------------------------------------- Location Resolver
\* What the source-map collaborators answer for one resolution:
\*   "throws"  getContentsFromFile or the SourceMapConsumer constructor
\*             fails (a missing file, a parse error): an Error is thrown
\*   "null"    originalPositionFor gives a null line, column or source
\*   "ok"      all three fields are resolved
\*   "rejects" an exception leaves the function, which catches only inside
\*             the try of lines 201-208: originalPositionFor (line 210)
\*             throws on a source map whose mappings cannot be decoded or
\*             on a line or column out of range, Uri.parse (line 219)
\*             throws, or the catch block itself throws reading e.stack
\*             (line 206) of a caught value that has no properties
MapAnswers == {"throws", "rejects", "null", "ok"}
\* sourceMap.originalPositionFor({column, line}) of a loaded source map
originalPositionFor(line, column) ==
  [source |-> "file:///src/a.ts", line |-> line + 7, column |-> column + column]
\* the undefined a resolution returns when it found nothing
Absent == [absent |-> TRUE]
\* the promise of the resolution is rejected: an exception was thrown
\* outside the try block, or inside the catch block
Rejected == [rejected |-> TRUE]
\* tryDeriveLocation: absent without a pattern match, when the source map
\* cannot be loaded, or when the reverse mapping is incomplete; rejected when
\* an exception leaves the function
tryDeriveLocation(stack, answer) ==
  LET parts == StackParts(stack) IN
    IF parts = <<>> THEN Absent
    ELSE IF answer = "throws" THEN Absent
    ELSE IF answer = "rejects" THEN Rejected
    ELSE IF answer = "null" THEN Absent
    ELSE LET position == originalPositionFor(parts[2], parts[3] - 1) IN
           [uri |-> position.source,
            start |-> <<position.line - 1, position.column>>,
            end |-> <<position.line - 1, position.column>>]
\* a resolution that never awaits I/O completes within the current turn
Immediate(task) == StackParts(StackOrErr(task.stack, task.err)) = <<>>

\* the column the fallback span of a case ends at
FirstLineEnd == 100
\* testFirstLine: the start line of the case's declared range
testFirstLine(tcase) ==
  [uri |-> CaseUri(tcase),
   start |-> RangeStart(tcase),
   end |-> <<RangeStart(tcase)[1], FirstLineEnd>>]

\* --------------------------------------------------------------- the state
VARIABLES
  pc,          \* where each runTests call stands
  tests,       \* req.tests of each call
  prev,        \* the run whose queue promise this run's work is chained on
  queueTail,   \* this.queue: the run whose promise it is (NoRun: Promise.resolve())
  outputChannel, \* this.outputChannel has been created
  log,         \* the lines appended to the output channel, tagged with the run
  shown,       \* output.show() was called by this run
  cancelled,   \* cancellationToken.isCancellationRequested
  scanner,     \* the runner process handle of each run
  subscribed,  \* scanTestOutput registered its handlers
  outcome,     \* the value the scan's promise is settled with, or "none"
  pending,     \* the Map<string, TestCase> of each run
  results,     \* the req.setState calls of each run, in order
  messages,    \* the req.appendMessage calls of each run, in order
  resolving,   \* fail events whose tryDeriveLocation continuation is outstanding
  delivered,   \* events delivered to the handlers so far
  inChunk,     \* the current task of the event loop is delivering runner output
  fnIn,        \* the argument of a function applied on its own, or NoCall
  fnOut        \* what that function returned, or NoCall

vars == <<pc, tests, prev, queueTail, outputChannel, log, shown, cancelled, scanner,
          subscribed, outcome, pending, results, messages, resolving, delivered, inChunk,
          fnIn, fnOut>>

coordVars == <<pc, tests, prev, queueTail, outputChannel, shown>>
scanVars == <<scanner, subscribed, outcome>>
caseVars == <<pending, results, messages, resolving>>

\* a step that is not the delivery of an event: the task delivering runner
\* output, if one was running, is over
NoDelivery == delivered' = delivered /\ inChunk' = FALSE

\* no function is being applied on its own
NoCall == [none |-> TRUE]

\* the coordinator after construction, no run requested
ProviderInit ==
  /\ pc = [r \in Runs |-> "idle"]
  /\ tests = [r \in Runs |-> <<>>]
  /\ prev = [r \in Runs |-> NoRun]
  /\ queueTail = NoRun
  /\ outputChannel = FALSE
  /\ log = <<>>
  /\ shown = [r \in Runs |-> FALSE]
  /\ cancelled = [r \in Runs |-> FALSE]
  /\ scanner = [r \in Runs |-> "none"]
  /\ subscribed = [r \in Runs |-> FALSE]
  /\ outcome = [r \in Runs |-> "none"]
  /\ pending = [r \in Runs |-> EmptyMap]
  /\ results = [r \in Runs |-> <<>>]
  /\ messages = [r \in Runs |-> <<>>]
  /\ resolving = [r \in Runs |-> {}]
  /\ delivered = 0
  /\ inChunk = FALSE

Init ==
  /\ ProviderInit
  /\ fnIn = NoCall
  /\ fnOut = NoCall

\* (mutant of PrevFulfilled) the work is started without waiting for the queue
PrevIgnored(r) == TRUE

\* the promise this run's work was chained on
PrevFulfilled(r) == IF prev[r] = NoRun THEN TRUE ELSE pc[prev[r]] = "done"
PrevRejected(r) == IF prev[r] = NoRun THEN FALSE ELSE pc[prev[r]] = "rejected"

\* Promise reactions run before the event loop takes its next task.
\* A continuation of a resolution that awaited nothing is outstanding:
ImmediatePending == \E r \in Runs : \E task \in resolving[r] : Immediate(task)
\* a reaction of a settled promise is outstanding: the finally and the await
\* of a settled scan, the queued callback of a settled queue promise
ReactionPending ==
  \/ \E r \in Runs : pc[r] = "scanning" /\ outcome[r] # "none"
  \/ \E r \in Runs : pc[r] = "queued" /\ (PrevFulfilled(r) \/ PrevRejected(r))
\* the precondition of every step that starts a new task of the event loop
Quiescent == ~ImmediatePending /\ ~ReactionPending

\* outputChannel.appendLine, for run r
appendLine(l, r, kind, text) == Append(l, <<r, kind, text>>)

\* (mutant of resolve) a later call overwrites the settled value
resolveOverwrites(r, value) == [outcome EXCEPT ![r] = value]

\* resolve(value) of the scan promise: only the first call settles it
resolve(r, value) ==
  IF outcome[r] = "none" THEN [outcome EXCEPT ![r] = value] ELSE outcome

\* ------------------------------------------------------- Run Coordinator
\* runTests is called: the root is found, the runner object is constructed
\* and getPendingTestMap is awaited.
runTests(r, t) ==
  /\ pc[r] = "idle"
  /\ \A q \in Runs : q < r => pc[q] # "idle"
  /\ Quiescent
  /\ tests' = [tests EXCEPT ![r] = t]
  /\ pc' = [pc EXCEPT ![r] = "building"]
  /\ UNCHANGED <<prev, queueTail, outputChannel, log, shown, cancelled>>
  /\ UNCHANGED <<scanVars, caseVars>>
  /\ NoDelivery

\* (mutant of ChainOnQueue) the runner is launched before the work is chained
ChainAfterLaunch(r) ==
  /\ pc[r] = "building"
  /\ pending' = [pending EXCEPT ![r] = getPendingTestMap(tests[r])]
  /\ prev' = [prev EXCEPT ![r] = queueTail]
  /\ queueTail' = r
  /\ scanner' = [scanner EXCEPT ![r] = "launching"]
  /\ pc' = [pc EXCEPT ![r] = "queued"]
  /\ UNCHANGED <<tests, outputChannel, log, shown, cancelled, results, messages, resolving>>
  /\ UNCHANGED <<subscribed, outcome>>
  /\ NoDelivery

\* the await of getPendingTestMap returns; the work is chained on this.queue
ChainOnQueue(r) ==
  /\ pc[r] = "building"
  /\ Quiescent
  /\ pending' = [pending EXCEPT ![r] = getPendingTestMap(tests[r])]
  /\ prev' = [prev EXCEPT ![r] = queueTail]
  /\ queueTail' = r
  /\ pc' = [pc EXCEPT ![r] = "queued"]
  /\ UNCHANGED <<tests, outputChannel, log, shown, cancelled, results, messages, resolving>>
  /\ UNCHANGED scanVars
  /\ NoDelivery

\* (mutant of StartPipeline) the banner is not written
StartPipelineNoBanner(r) ==
  /\ pc[r] = "queued"
  /\ PrevFulfilled(r)
  /\ ~ImmediatePending
  /\ outputChannel' = TRUE
  /\ scanner' = [scanner EXCEPT ![r] = "launching"]
  /\ pc' = [pc EXCEPT ![r] = "launching"]
  /\ UNCHANGED <<tests, prev, queueTail, log, shown, cancelled, subscribed, outcome>>
  /\ UNCHANGED caseVars
  /\ NoDelivery

\* the queued callback starts: banner, then the runner is launched
StartPipeline(r) ==
  /\ pc[r] = "queued"
  /\ PrevFulfilled(r)
  /\ ~ImmediatePending
  /\ outputChannel' = TRUE
  /\ log' = appendLine(appendLine(appendLine(log, r, "blank", ""), r, "banner", ""),
                       r, "blank", "")
  /\ scanner' = [scanner EXCEPT ![r] = "launching"]
  /\ pc' = [pc EXCEPT ![r] = "launching"]
  /\ UNCHANGED <<tests, prev, queueTail, shown, cancelled, subscribed, outcome>>
  /\ UNCHANGED caseVars
  /\ NoDelivery

\* then() was given no rejection handler: a rejected queue promise skips the
\* callback and the rejection is passed on
SkipPipeline(r) ==
  /\ pc[r] = "queued"
  /\ PrevRejected(r)
  /\ ~ImmediatePending
  /\ pc' = [pc EXCEPT ![r] = "rejected"]
  /\ UNCHANGED <<tests, prev, queueTail, outputChannel, log, shown, cancelled>>
  /\ UNCHANGED <<scanVars, caseVars>>
  /\ NoDelivery

\* runner.run / runner.debug rejects
LaunchFails(r) ==
  /\ pc[r] = "launching"
  /\ Quiescent
  /\ scanner' = [scanner EXCEPT ![r] = "failed"]
  /\ pc' = [pc EXCEPT ![r] = "rejected"]
  /\ UNCHANGED <<tests, prev, queueTail, outputChannel, log, shown, cancelled,
                 subscribed, outcome>>
  /\ UNCHANGED caseVars
  /\ NoDelivery

\* (mutant of ScanAwaited) the log is shown whatever the outcome
ScanAwaitedShows(r) ==
  /\ pc[r] = "scanning"
  /\ outcome[r] # "none"
  /\ scanner[r] = "disposed"
  /\ ~ImmediatePending
  /\ shown' = [shown EXCEPT ![r] = TRUE]
  /\ pc' = [pc EXCEPT ![r] = "done"]
  /\ UNCHANGED <<tests, prev, queueTail, outputChannel, log, cancelled>>
  /\ UNCHANGED <<scanVars, caseVars>>
  /\ NoDelivery

\* (mutant of ScanAwaited) the log is also shown when a case failed
ScanAwaitedShowsFailures(r) ==
  /\ pc[r] = "scanning"
  /\ outcome[r] # "none"
  /\ scanner[r] = "disposed"
  /\ ~ImmediatePending
  /\ shown' = [shown EXCEPT ![r] =
       outcome[r] # "Skipped" \/ \E i \in DOMAIN results[r] : results[r][i][2] = "Failed"]
  /\ pc' = [pc EXCEPT ![r] = "done"]
  /\ UNCHANGED <<tests, prev, queueTail, outputChannel, log, cancelled>>
  /\ UNCHANGED <<scanVars, caseVars>>
  /\ NoDelivery

\* the scan promise (with its finally) is settled: the await returns
ScanAwaited(r) ==
  /\ pc[r] = "scanning"
  /\ outcome[r] # "none"
  /\ scanner[r] = "disposed"
  /\ ~ImmediatePending
  /\ shown' = [shown EXCEPT ![r] = (outcome[r] # "Skipped")]
  /\ pc' = [pc EXCEPT ![r] = "done"]
  /\ UNCHANGED <<tests, prev, queueTail, outputChannel, log, cancelled>>
  /\ UNCHANGED <<scanVars, caseVars>>
  /\ NoDelivery

\* ----------------------------------------------------------- Run Scanner
\* (mutant of ScanEntry) the cancellation check on entry is missing
ScanEntryUnchecked(r) ==
  /\ pc[r] = "launching"
  /\ scanner' = [scanner EXCEPT ![r] = "live"]
  /\ subscribed' = [subscribed EXCEPT ![r] = TRUE]
  /\ pc' = [pc EXCEPT ![r] = "scanning"]
  /\ UNCHANGED <<tests, prev, queueTail, outputChannel, log, shown, cancelled, outcome>>
  /\ UNCHANGED caseVars
  /\ NoDelivery

\* (mutant of ScanEntry) the early return forgets scanner.dispose()
ScanEntryNoDispose(r) ==
  /\ pc[r] = "launching"
  /\ IF cancelled[r]
       THEN /\ scanner' = [scanner EXCEPT ![r] = "live"]
            /\ outcome' = [outcome EXCEPT ![r] = "Skipped"]
            /\ UNCHANGED subscribed
       ELSE /\ scanner' = [scanner EXCEPT ![r] = "live"]
            /\ subscribed' = [subscribed EXCEPT ![r] = TRUE]
            /\ UNCHANGED outcome
  /\ pc' = [pc EXCEPT ![r] = "scanning"]
  /\ UNCHANGED <<tests, prev, queueTail, outputChannel, log, shown, cancelled>>
  /\ UNCHANGED caseVars
  /\ NoDelivery

\* runner.run / runner.debug returns the scanner and scanTestOutput is entered
ScanEntry(r) ==
  /\ pc[r] = "launching"
  /\ Quiescent
  /\ IF cancelled[r]
       THEN /\ scanner' = [scanner EXCEPT ![r] = "disposed"]
            /\ outcome' = [outcome EXCEPT ![r] = "Skipped"]
            /\ UNCHANGED subscribed
       ELSE /\ scanner' = [scanner EXCEPT ![r] = "live"]
            /\ subscribed' = [subscribed EXCEPT ![r] = TRUE]
            /\ UNCHANGED outcome
  /\ pc' = [pc EXCEPT ![r] = "scanning"]
  /\ UNCHANGED <<tests, prev, queueTail, outputChannel, log, shown, cancelled>>
  /\ UNCHANGED caseVars
  /\ NoDelivery

\* the cancellation token of run r fires
OnCancel(r) ==
  /\ pc[r] # "idle"
  /\ ~cancelled[r]
  /\ Quiescent
  /\ cancelled' = [cancelled EXCEPT ![r] = TRUE]
  /\ outcome' = IF subscribed[r] THEN resolve(r, "Skipped") ELSE outcome
  /\ UNCHANGED <<coordVars, log, scanner, subscribed>>
  /\ UNCHANGED caseVars
  /\ NoDelivery

\* One event of the runner of run r reaches the handlers scanTestOutput
\* registered.  The handlers are never unregistered, and an event the
\* process emitted before it was disposed of may still arrive afterwards.
\* Runner output arrives in a task of its own, which may deliver several
\* events one after the other before any promise reaction runs.
Delivered(r) ==
  /\ subscribed[r]
  /\ inChunk \/ Quiescent
  /\ delivered' = delivered + 1
  /\ inChunk' = TRUE

\* (mutant of OnRunnerError) the error is logged but the scan is not settled
OnRunnerErrorLogsOnly(r) ==
  /\ Delivered(r)
  /\ log' = appendLine(log, r, "error", "")
  /\ UNCHANGED <<coordVars, cancelled, scanner, subscribed, outcome>>
  /\ UNCHANGED caseVars

OnRunnerError(r) ==
  /\ Delivered(r)
  /\ log' = appendLine(log, r, "error", "")
  /\ outcome' = resolve(r, "Errored")
  /\ UNCHANGED <<coordVars, cancelled, scanner, subscribed>>
  /\ UNCHANGED caseVars

OnOtherOutput(r) ==
  /\ Delivered(r)
  /\ log' = appendLine(log, r, "other", "")
  /\ UNCHANGED <<coordVars, cancelled>>
  /\ UNCHANGED <<scanVars, caseVars>>

OnStart(r) ==
  /\ Delivered(r)
  /\ UNCHANGED <<coordVars, log, cancelled>>
  /\ UNCHANGED <<scanVars, caseVars>>

\* (mutant of OnPass) the title is left in the map
OnPassKeeps(r, title, duration) ==
  /\ Delivered(r)
  /\ LET tcase == MapGet(pending[r], title) IN
       /\ log' = appendLine(log, r, "pass", title)
       /\ IF tcase # NoCase
            THEN results' = [results EXCEPT ![r] = Append(@, <<tcase, "Passed", duration>>)]
            ELSE UNCHANGED results
  /\ UNCHANGED <<coordVars, cancelled, pending, messages, resolving>>
  /\ UNCHANGED scanVars

OnPass(r, title, duration) ==
  /\ Delivered(r)
  /\ LET tcase == MapGet(pending[r], title) IN
       /\ log' = appendLine(log, r, "pass", title)
       /\ IF tcase # NoCase
            THEN /\ results' = [results EXCEPT ![r] = Append(@, <<tcase, "Passed", duration>>)]
                 /\ pending' = [pending EXCEPT ![r] = MapDelete(@, title)]
            ELSE UNCHANGED <<results, pending>>
  /\ UNCHANGED <<coordVars, cancelled, messages, resolving>>
  /\ UNCHANGED scanVars

\* (mutant of OnFail) the early return for an unknown title is missing
OnFailUnguarded(r, id, duration, stack, err) ==
  /\ Delivered(r)
  /\ LET tcase == MapGet(pending[r], id) IN
       /\ log' = appendLine(log, r, "fail", id)
       /\ pending' = [pending EXCEPT ![r] = MapDelete(@, id)]
       /\ resolving' = [resolving EXCEPT ![r] = @ \cup
            {[tcase |-> tcase, title |-> id, duration |-> duration,
              stack |-> stack, err |-> err]}]
  /\ UNCHANGED <<coordVars, cancelled, results, messages>>
  /\ UNCHANGED scanVars

OnFail(r, id, duration, stack, err) ==
  /\ Delivered(r)
  /\ LET tcase == MapGet(pending[r], id) IN
       /\ log' = appendLine(log, r, "fail", id)
       /\ IF tcase = NoCase
            THEN UNCHANGED <<pending, resolving>>
            ELSE /\ pending' = [pending EXCEPT ![r] = MapDelete(@, id)]
                 /\ resolving' = [resolving EXCEPT ![r] = @ \cup
                      {[tcase |-> tcase, title |-> id, duration |-> duration,
                        stack |-> stack, err |-> err]}]
  /\ UNCHANGED <<coordVars, cancelled, results, messages>>
  /\ UNCHANGED scanVars

OnEnd(r) ==
  /\ Delivered(r)
  /\ outcome' = resolve(r, "Skipped")
  /\ UNCHANGED <<coordVars, log, cancelled, scanner, subscribed>>
  /\ UNCHANGED caseVars

\* (mutant of DeriveDone) the location is not replaced when it is absent
DeriveDoneNoFallback(r, task, answer) ==
  /\ task \in resolving[r]
  /\ Immediate(task) \/ Quiescent
  /\ LET location == tryDeriveLocation(StackOrErr(task.stack, task.err), answer) IN
       /\ messages' = [messages EXCEPT ![r] = Append(@,
            [tcase |-> task.tcase,
             message |-> tryMakeMarkdown(Split(task.err)),
             location |-> location])]
       /\ results' = [results EXCEPT ![r] = Append(@, <<task.tcase, "Failed", task.duration>>)]
       /\ log' = appendLine(log, r, "raw", StackOrErr(task.stack, task.err))
  /\ resolving' = [resolving EXCEPT ![r] = @ \ {task}]
  /\ UNCHANGED <<coordVars, cancelled, pending>>
  /\ UNCHANGED scanVars
  /\ NoDelivery

\* the continuation of tryDeriveLocation(stack || err) of one fail event;
\* it does not run when the promise of the resolution is rejected, the then
\* of line 162 having no rejection handler
DeriveDone(r, task, answer) ==
  /\ task \in resolving[r]
  /\ Immediate(task) \/ Quiescent
  /\ LET location == tryDeriveLocation(StackOrErr(task.stack, task.err), answer) IN
       IF location = Rejected
         THEN UNCHANGED <<messages, results, log>>
         ELSE /\ messages' = [messages EXCEPT ![r] = Append(@,
                   [tcase |-> task.tcase,
                    message |-> tryMakeMarkdown(Split(task.err)),
                    location |-> IF location = Absent THEN testFirstLine(task.tcase)
                                 ELSE location])]
              /\ results' = [results EXCEPT ![r] =
                   Append(@, <<task.tcase, "Failed", task.duration>>)]
              /\ log' = appendLine(log, r, "raw", StackOrErr(task.stack, task.err))
  /\ resolving' = [resolving EXCEPT ![r] = @ \ {task}]
  /\ UNCHANGED <<coordVars, cancelled, pending>>
  /\ UNCHANGED scanVars
  /\ NoDelivery

\* .finally(() => scanner.dispose()) once the scan promise is settled
ScanFinally(r) ==
  /\ subscribed[r]
  /\ outcome[r] # "none"
  /\ scanner[r] = "live"
  /\ scanner' = [scanner EXCEPT ![r] = "disposed"]
  /\ UNCHANGED <<coordVars, log, cancelled, subscribed, outcome>>
  /\ UNCHANGED caseVars
  /\ NoDelivery

\* ------------------------------------------------------- specifications
\* the steps of the coordinator and of the scan's promise, for run r
Coordinate(r) ==
  \/ ChainOnQueue(r)
  \/ StartPipeline(r)
  \/ LaunchFails(r)
  \/ ScanEntry(r)
  \/ ScanAwaited(r)
  \/ OnCancel(r)
  \/ ScanFinally(r)
\* and the continuations of its fail events
Pipeline(r) ==
  \/ Coordinate(r)
  \/ \E task \in resolving[r], a \in MapAnswers : DeriveDone(r, task, a)

\* Spec: up to MaxRuns run requests on one coordinator; the runners deliver
\* fail, end and runner-error events, and the source maps are resolved.
QueueTitles == {"A"}
QueueDurations == {12}
QueueStacks == {"file:///a.js:5:3"}
QueueAnswers == {"ok"}
Next ==
  /\ \E r \in Runs :
       \/ runTests(r, <<1>>)
       \/ Coordinate(r)
       \/ \E task \in resolving[r], a \in QueueAnswers : DeriveDone(r, task, a)
       \/ SkipPipeline(r)
       \/ /\ delivered < MaxQueueEvents
          /\ \/ OnRunnerError(r)
             \/ \E id \in QueueTitles, d \in QueueDurations, s \in QueueStacks, e \in Errs :
                  OnFail(r, id, d, s, e)
             \/ OnEnd(r)
  /\ UNCHANGED <<fnIn, fnOut>>

Spec == Init /\ [][Next]_vars

\* ScanSpec: one run request, any request of Requests; its runner delivers
\* any events.
ScanNext ==
  /\ \/ \E t \in Requests : runTests(1, t)
     \/ Pipeline(1)
     \/ /\ delivered < MaxEvents
        /\ \/ OnRunnerError(1)
           \/ OnOtherOutput(1)
           \/ OnStart(1)
           \/ \E title \in Titles, d \in Durations : OnPass(1, title, d)
           \/ \E id \in Titles, d \in Durations, s \in Stacks, e \in Errs :
                OnFail(1, id, d, s, e)
           \/ OnEnd(1)
  /\ UNCHANGED <<fnIn, fnOut>>

ScanSpec == Init /\ [][ScanNext]_vars

\* the fairness the event loop gives: a settled scan promise runs its finally
ScanFair == ScanSpec /\ WF_vars(ScanFinally(1) /\ UNCHANGED <<fnIn, fnOut>>)

\* the scan of run r is running
Running(r) == pc[r] = "scanning" /\ outcome[r] = "none"

\* LiveSpec: up to MaxRuns run requests whose runner launches all succeed.
\* While its scan is running a runner delivers an end event or a runner
\* error.
Trigger(r) == OnEnd(r) \/ OnRunnerError(r) \/ OnCancel(r)
LiveNext ==
  /\ \E r \in Runs :
       \/ runTests(r, <<1>>)
       \/ ChainOnQueue(r)
       \/ StartPipeline(r)
       \/ ScanEntry(r)
       \/ ScanFinally(r)
       \/ ScanAwaited(r)
       \/ OnCancel(r)
       \/ Running(r) /\ OnEnd(r)
       \/ Running(r) /\ OnRunnerError(r)
  /\ UNCHANGED <<fnIn, fnOut>>
LiveSpec == Init /\ [][LiveNext]_vars
\* a continuation that is ready runs, or a running scan gets an end event, a
\* runner error or a cancellation
Progress ==
  /\ \E r \in Runs :
       \/ ChainOnQueue(r)
       \/ StartPipeline(r)
       \/ ScanEntry(r)
       \/ ScanFinally(r)
       \/ ScanAwaited(r)
       \/ Running(r) /\ Trigger(r)
  /\ UNCHANGED <<fnIn, fnOut>>
\* the event loop does not stop while a continuation is ready, and no runner
\* stays silent for ever while its scan is running
LiveFair == LiveSpec /\ WF_vars(Progress)

\* the state of the coordinator and of its runs
providerVars == <<pc, tests, prev, queueTail, outputChannel, log, shown, cancelled,
                  scanner, subscribed, outcome, pending, results, messages, resolving,
                  delivered, inChunk>>

\* FormatSpec: tryMakeMarkdown applied to one message of up to MaxLines lines
MaxLines == 3
LineTokens == {"AssertionError", "+ actual: 1", "  + actual - expected", "- expected: 2"}
FormatInputs == UNION {[1..n -> LineTokens] : n \in 1..MaxLines}
FormatInit ==
  /\ ProviderInit
  /\ fnIn \in FormatInputs
  /\ fnOut = NoCall
FormatNext ==
  /\ fnOut = NoCall
  /\ fnOut' = tryMakeMarkdown(fnIn)
  /\ UNCHANGED <<fnIn, providerVars>>
FormatSpec == FormatInit /\ [][FormatNext]_vars

\* IndexSpec: getPendingTestMap applied to up to MaxRoots requested items of
\* one hierarchy.  The hierarchies are the tree of the workspace with any
\* labels on its cases, either order of the root's children, node 3 a file
\* or a suite, and the files holding no child or only their first child
\* until they are refreshed.
MaxRoots == 2
RootOrders == {<<2, 3>>, <<3, 2>>}
KindsOfThree == {"file", "suite"}
Hierarchy(k3, order, partial, lab) ==
  LET kind == [n \in Nodes |-> IF n = 3 THEN k3 ELSE Kind(n)]
      full == [n \in Nodes |-> IF n = 1 THEN order ELSE Children(n)]
  IN [kind |-> kind,
      children |-> [n \in Nodes |->
                      IF kind[n] = "file"
                        THEN IF partial THEN <<Head(full[n])>> ELSE StaleChildren(n)
                        ELSE full[n]],
      refreshed |-> full,
      label |-> [n \in Nodes |-> IF n \in Cases THEN lab[n] ELSE ""]]
Hierarchies ==
  {Hierarchy(k3, order, partial, lab) :
     k3 \in KindsOfThree, order \in RootOrders, partial \in BOOLEAN, lab \in [Cases -> Titles]}
RootLists == UNION {[1..n -> Nodes] : n \in 1..MaxRoots}
IndexInit ==
  /\ ProviderInit
  /\ fnIn \in [h : Hierarchies, tests : RootLists]
  /\ fnOut = NoCall
\* getPendingTestMap is called and runs to its first await
IndexCall ==
  /\ fnOut = NoCall
  /\ fnOut' = WalkCall(fnIn.h, fnIn.tests)
  /\ UNCHANGED <<fnIn, providerVars>>
\* a later task of the event loop: the awaited refresh() is over
IndexResume ==
  /\ fnOut # NoCall
  /\ ~WalkOver(fnOut)
  /\ fnOut' = WalkResume(fnIn.h, fnOut)
  /\ UNCHANGED <<fnIn, providerVars>>
IndexNext == IndexCall \/ IndexResume
IndexSpec == IndexInit /\ [][IndexNext]_vars

\* =================================================================== claims
\* the lines of the log
Lines == DOMAIN log
HasBanner(r) == \E i \in Lines : log[i] = <<r, "banner", "">>
\* this step delivers a pass or fail event for title t to the scan of run r
EventFor(r, t) == \E k \in {"pass", "fail"} : log' = Append(log, <<r, k, t>>)
\* the pending index of run r as it was built
Built(r) == getPendingTestMap(tests[r])
\* the scan of run r was entered
Entered(r) == pc[r] \in {"scanning", "done"}

\* C1: Whatever cancellation, runner-error, other-output and start/pass/fail/end
\* events arrive and in whatever order, the outcome of a scan, once assigned
\* (Skipped or Errored), never changes: the scan settles at most once.
C1_SettlesOnce ==
  [][\A r \in Runs : outcome[r] # "none" => outcome'[r] = outcome[r]]_vars

\* a scan settled as Skipped whose runner reported an error afterwards
C1_Witness ==
  /\ outcome[1] = "Skipped"
  /\ \E i \in Lines : log[i] = <<1, "error", "">>

\* C2: Within one run a case's result state is set at most once; an event for
\* a title leaves the title out of the pending index, and an event for a
\* title that is no longer in the index changes no case and not the index.
C2_SetAtMostOnce ==
  /\ [](\A r \in Runs : \A i, j \in DOMAIN results[r] :
          results[r][i][1] = results[r][j][1] => i = j)
  /\ [][\A r \in Runs, t \in Titles :
          EventFor(r, t) =>
            /\ t \notin DOMAIN pending'[r]
            /\ t \notin DOMAIN pending[r] => UNCHANGED <<pending, results, messages, resolving>>
       ]_vars

\* two events for title A were delivered and the case has its one result
C2_Witness ==
  /\ \E i, j \in Lines :
       /\ i < j
       /\ log[i][2] \in {"pass", "fail"} /\ log[i][3] = "A"
       /\ log[j][2] \in {"pass", "fail"} /\ log[j][3] = "A"
  /\ \E i \in DOMAIN results[1] : results[1][i][1] = Built(1)["A"]

\* C3: A scan entered with the cancellation already requested disposes of the
\* process handle and settles as Skipped without registering a handler; it
\* changes no case state, no pending-index entry and appends no log line.
C3_CancelledOnEntry ==
  /\ [][\A r \in Runs :
          (pc[r] = "launching" /\ pc'[r] = "scanning" /\ cancelled[r]) =>
            (scanner'[r] = "disposed" /\ outcome'[r] = "Skipped" /\ ~subscribed'[r])
       ]_vars
  /\ [](\A r \in Runs :
          (Entered(r) /\ ~subscribed[r]) =>
            /\ scanner[r] = "disposed"
            /\ outcome[r] = "Skipped"
            /\ pending[r] = Built(r)
            /\ results[r] = <<>> /\ messages[r] = <<>> /\ resolving[r] = {}
            /\ \A i \in Lines : log[i][1] = r => log[i][2] \in {"blank", "banner"})

\* a run cancelled before its scan was entered has finished
C3_Witness ==
  /\ pc[1] = "done"
  /\ cancelled[1]
  /\ ~subscribed[1]
  /\ scanner[1] = "disposed"

\* C4 (as claimed): once the cancellation has fired during the scan, no event
\* delivered afterwards sets a case's result state or removes a pending-index
\* entry.
C4_NoEventAfterCancel ==
  [][\A r \in Runs :
       (subscribed[r] /\ cancelled[r] /\ outcome[r] = "Skipped" /\ delivered' # delivered)
         => (results'[r] = results[r] /\ pending'[r] = pending[r])
    ]_vars

\* C5: A settled scan has its process handle disposed of, on every path:
\* it is disposed of eventually, and before the coordinator goes on.
C5_DisposedOnSettle ==
  /\ \A r \in Runs : (outcome[r] # "none") ~> (scanner[r] = "disposed")
  /\ [](\A r \in Runs : pc[r] = "done" => scanner[r] = "disposed")

\* a scan settled by a runner error, its handle disposed of
C5_Witness ==
  /\ outcome[1] = "Errored"
  /\ scanner[1] = "disposed"

\* C6: At most one run is between its banner and the settlement of its scan.
InPipeline(r) == pc[r] \in {"launching", "scanning"}
C6_OnePipeline ==
  \A r, q \in Runs : (InPipeline(r) /\ InPipeline(q)) => r = q

\* a run is scanning, unsettled, while the next one waits in the queue
C6_Witness ==
  /\ pc[1] = "scanning" /\ outcome[1] = "none"
  /\ pc[2] = "queued" /\ prev[2] = 1

\* C7 (as claimed): the lines of one run are contiguous in the log: no line
\* of a run follows a line of another run that was appended after one of its
\* own.
C7_NoInterleaving ==
  \A i, j, k \in Lines :
    (i < j /\ j < k /\ log[i][1] = log[k][1]) => log[j][1] = log[i][1]

\* C8 (as claimed): a run's pipeline ends only after the run wrote its banner,
\* also when an earlier pipeline failed.
C8_RunsAfterFailure ==
  \A r \in Runs : pc[r] \in {"done", "rejected"} => HasBanner(r)

\* C9 (as claimed): when a request's work is chained on the queue its
\* pending index is built and its runner is launched.
C9_EagerLaunch ==
  \A r \in Runs :
    pc[r] = "queued" => (pending[r] = Built(r) /\ scanner[r] # "none")

\* C9 (amended): when a request's work is chained on the queue its pending
\* index is built and its runner is not launched; a runner is launched only
\* after its run's banner, and never while another run is in its pipeline.
C9_LaunchInQueue ==
  \A r \in Runs :
    /\ pc[r] = "queued" => (pending[r] = Built(r) /\ scanner[r] = "none")
    /\ scanner[r] # "none" => HasBanner(r)
    /\ scanner[r] = "launching" => \A q \in Runs \ {r} : ~InPipeline(q)

\* the second request has its index built and no runner while the first scans
C9_Witness ==
  /\ pc[1] = "scanning" /\ outcome[1] = "none" /\ scanner[1] = "live"
  /\ pc[2] = "queued" /\ DOMAIN pending[2] # {} /\ scanner[2] = "none"

\* C10: A pass or fail event for a title that was never in the pending index
\* raises nothing and changes no case, no diagnostic and not the index: the
\* marker line is its only effect.
C10_UnknownTitle ==
  [][\A r \in Runs, t \in Titles :
       (EventFor(r, t) /\ t \notin DOMAIN Built(r)) =>
         UNCHANGED <<pc, shown, scanner, subscribed, outcome,
                     pending, results, messages, resolving>>
    ]_vars

\* a marker for a title the request never held is in the log
C10_Witness ==
  \E i \in Lines :
    /\ log[i][1] = 1
    /\ log[i][2] \in {"pass", "fail"}
    /\ log[i][3] \notin DOMAIN Built(1)

\* the lines a fail continuation of run r wrote, in order: the i-th of them
\* was written together with the i-th diagnostic of the run
RawLines(r) == SelectSeq(log, LAMBDA e : e[1] = r /\ e[2] = "raw")

\* the pass and fail events delivered to the scan of run r, as the log has them
Markers(r) == SelectSeq(log, LAMBDA e : e[1] = r /\ e[2] \in {"pass", "fail"})
\* the results and the diagnostics reported for one case
ResultsOf(r, tcase) == SelectSeq(results[r], LAMBDA e : e[1] = tcase)
MessagesOf(r, tcase) == SelectSeq(messages[r], LAMBDA m : m.tcase = tcase)
\* the run was not cancelled, its runner reported no error, and exactly one
\* pass or fail event was delivered for every title of the index it built
OnePerTitle(r) ==
  /\ Entered(r)
  /\ ~cancelled[r]
  /\ \A i \in Lines : ~(log[i][1] = r /\ log[i][2] = "error")
  /\ \A t \in Titles :
       Len(SelectSeq(Markers(r), LAMBDA e : e[3] = t)) = IF t \in DOMAIN Built(r) THEN 1 ELSE 0

\* the first event delivered for title t of the index of run r is a fail
\* event: it was matched to the case
MatchedFail(r, t) ==
  /\ t \in DOMAIN Built(r)
  /\ \E i \in DOMAIN Markers(r) :
       /\ Markers(r)[i] = <<r, "fail", t>>
       /\ \A j \in 1..(i - 1) : Markers(r)[j][3] # t

\* C11: Every matched fail event whose location resolution returned absent
\* has its diagnostic located at the declared start-line span of the case,
\* from the start of its range to column 100 of the same line: a diagnostic
\* never has an absent location; it is attached together with the line the
\* continuation writes; when the text of the event holds no file URI with
\* line and column its location is that span; and every location is either
\* that span or the position the source map gave. Only a runner error,
\* which writes its line to the log, settles a scan as Errored, so a
\* resolution that found nothing never does.
C11_FallbackLocation ==
  \A r \in Runs :
    /\ Len(RawLines(r)) = Len(messages[r])
    /\ \A i \in DOMAIN messages[r] :
         LET m == messages[r][i] IN
           /\ m.location # Absent
           /\ DOMAIN m.location = {"uri", "start", "end"}
           /\ StackParts(RawLines(r)[i][3]) = <<>> => m.location = testFirstLine(m.tcase)
           /\ \/ m.location = testFirstLine(m.tcase)
              \/ m.location = tryDeriveLocation(RawLines(r)[i][3], "ok")
           /\ m.location.uri = CaseUri(m.tcase) =>
                /\ m.location.start = RangeStart(m.tcase)
                /\ m.location.end = <<RangeStart(m.tcase)[1], 100>>
    /\ outcome[r] = "Errored" => \E i \in Lines : log[i][1] = r /\ log[i][2] = "error"
\* a fail event whose text names a file URI got the fallback span (its source
\* map could not be loaded or gave nothing), and the run settled on end
\* without a runner error
C11_Witness ==
  \E r \in Runs :
    /\ pc[r] = "done" /\ outcome[r] = "Skipped" /\ ~cancelled[r]
    /\ \A i \in Lines : log[i][2] # "error"
    /\ \E i \in DOMAIN messages[r] :
         /\ messages[r][i].location = testFirstLine(messages[r][i].tcase)
         /\ RawLines(r)[i][3] = "file:///a.js:5:3"

\* C12: (the claim, which the code does not meet when the location
\* resolution of a fail event is rejected) In a run without cancellation
\* and without runner error in which exactly one pass or fail event arrived
\* for every title of the pending index (the start event changes nothing,
\* and the end event settles the
\* scan): the index is empty; the case of a passed title has the single
\* result Passed and no diagnostic; the case of a failed title has, as soon
\* as the continuation of its location resolution has run, the single result
\* Failed with the duration of its event and one diagnostic whose text is
\* the formatted error; and the scan is settled only as Skipped.
C12_CompletedRun ==
  \A r \in Runs :
    OnePerTitle(r) =>
      /\ pending[r] = EmptyMap
      /\ outcome[r] \in {"none", "Skipped"}
      /\ \A i \in DOMAIN Markers(r) :
           LET t == Markers(r)[i][3]
               tcase == Built(r)[t]
               waiting == {task \in resolving[r] : task.tcase = tcase}
           IN IF Markers(r)[i][2] = "pass"
                THEN /\ Len(ResultsOf(r, tcase)) = 1
                     /\ ResultsOf(r, tcase)[1][2] = "Passed"
                     /\ ResultsOf(r, tcase)[1][3] \in Durations
                     /\ MessagesOf(r, tcase) = <<>>
                     /\ waiting = {}
                ELSE IF waiting # {}
                  THEN /\ ResultsOf(r, tcase) = <<>>
                       /\ MessagesOf(r, tcase) = <<>>
                  ELSE /\ Len(ResultsOf(r, tcase)) = 1
                       /\ ResultsOf(r, tcase)[1][2] = "Failed"
                       /\ ResultsOf(r, tcase)[1][3] \in Durations
                       /\ Len(MessagesOf(r, tcase)) = 1
                       /\ MessagesOf(r, tcase)[1].message.type = "MarkdownString"
                       /\ MessagesOf(r, tcase)[1].message.lines[2] = "<fence>diff"
\* C13: The log is shown only by a run whose scan has settled, and then
\* exactly when the outcome is not Skipped: a run settled as Errored shows
\* it, a run settled as Skipped (by a cancellation or by the end event)
\* does not.
C13_ShownIffNotSkipped ==
  \A r \in Runs :
    /\ shown[r] => pc[r] = "done"
    /\ pc[r] = "done" => (shown[r] <=> outcome[r] # "Skipped")
    /\ pc[r] = "done" => (shown[r] <=> outcome[r] = "Errored")
\* a run settled as Errored that showed the log; its token was cancelled
\* after the run was done
C13_Witness ==
  \E r \in Runs : pc[r] = "done" /\ outcome[r] = "Errored" /\ shown[r] /\ cancelled[r]

\* C14: (the claim, which the code does not meet) When the scan of a run has
\* settled and no fail continuation is outstanding, every case still in the
\* pending index has a result or is named by a line of the log.
C14_LeftoversReported ==
  \A r \in Runs :
    (pc[r] = "done" /\ resolving[r] = {}) =>
      \A t \in DOMAIN pending[r] :
        \/ ResultsOf(r, pending[r][t]) # <<>>
        \/ MessagesOf(r, pending[r][t]) # <<>>
        \/ \E i \in Lines : log[i][1] = r /\ log[i][3] = t

\* the positions of the lines of a message that hold the marker
Hits(m) == {i \in DOMAIN m : IncludesActual(m[i])}

\* C15: tryMakeMarkdown returns a message none of whose lines holds
\* '+ actual' as it is, as a plain string; otherwise it returns a
\* MarkdownString of one line more than the message, in which the first line
\* holding '+ actual' is replaced by the opening diff fence, the added last
\* line is the closing fence, and every other line is the line of the
\* message at the same position.
C15_Format ==
  fnOut # NoCall =>
    IF Hits(fnIn) = {}
      THEN fnOut = [type |-> "string", lines |-> fnIn]
      ELSE LET first == CHOOSE i \in Hits(fnIn) : \A j \in Hits(fnIn) : i <= j IN
             /\ fnOut.type = "MarkdownString"
             /\ Len(fnOut.lines) = Len(fnIn) + 1
             /\ fnOut.lines[first] = "<fence>diff"
             /\ fnOut.lines[Len(fnIn) + 1] = "<fence>"
             /\ \A i \in DOMAIN fnIn : i # first => fnOut.lines[i] = fnIn[i]
\* a message with two lines holding the marker, the first of them not the
\* first line, was formatted
C15_Witness ==
  /\ fnOut # NoCall
  /\ Len(fnIn) = 3
  /\ Hits(fnIn) = {2, 3}
  /\ fnOut.lines = <<fnIn[1], "<fence>diff", fnIn[3], "<fence>">>

\* the items a visit of item n puts on the work stack
Expansion(h, n) ==
  IF h.kind[n] = "file" THEN h.refreshed[n]
  ELSE IF h.kind[n] = "case" THEN <<>>
  ELSE h.children[n]
Range(f) == {f[i] : i \in DOMAIN f}
\* the items reachable from a set of items
RECURSIVE Reach(_, _)
Reach(h, S) ==
  LET T == S \cup UNION {Range(Expansion(h, n)) : n \in S} IN
    IF T = S THEN S ELSE Reach(h, T)
\* the last position of the visiting order at which a case labelled t stands
LastVisit(h, visited, t) ==
  CHOOSE i \in DOMAIN visited :
    /\ h.label[visited[i]] = t
    /\ \A j \in DOMAIN visited : h.label[visited[j]] = t => j <= i

\* C16: At every await of getPendingTestMap, an item on its work stack or
\* visited is a requested item or a child of an item expanded before, and
\* then a child as it is after the refresh if that item is a file.
\* getPendingTestMap ends with an empty work stack. It refreshed
\* exactly the files reachable from the requested items and visited exactly
\* the cases reachable from them, through the children of containers and the
\* children files have after refresh. The keys of the map are the labels of
\* the reachable cases, every value is a reachable case labelled by its key,
\* namely the one visited last of those sharing the label, and when no two
\* reachable cases share a label the values are all the reachable cases.
C16_IndexBuilt ==
  /\ fnOut # NoCall =>
       \A n \in Range(fnOut.visited) \cup Range(fnOut.batch)
                \cup UNION {Range(fnOut.queue[i]) : i \in DOMAIN fnOut.queue} :
         \/ n \in Range(fnIn.tests)
         \/ \E p \in Nodes :
              /\ n \in Range(Expansion(fnIn.h, p))
              /\ fnIn.h.kind[p] = "file" => p \in fnOut.refreshed
  /\ (IF fnOut = NoCall THEN FALSE ELSE WalkOver(fnOut)) =>
    LET h == fnIn.h
        reach == Reach(h, Range(fnIn.tests))
        cases == {n \in reach : h.kind[n] = "case"}
        m == fnOut.titleMap
    IN /\ fnOut.queue = <<>>
       /\ fnOut.batch = <<>>
       /\ fnOut.refreshed = {n \in reach : h.kind[n] = "file"}
       /\ Range(fnOut.visited) = cases
       /\ DOMAIN m = {h.label[n] : n \in cases}
       /\ \A t \in DOMAIN m :
            /\ m[t] \in cases
            /\ h.label[m[t]] = t
            /\ m[t] = fnOut.visited[LastVisit(h, fnOut.visited, t)]
       /\ (\A a, b \in cases : h.label[a] = h.label[b] => a = b) =>
            {m[t] : t \in DOMAIN m} = cases
\* the whole tree was requested; its files held no child before the refresh,
\* two of its three cases share a label, and the second visited was kept
C16_Witness ==
  /\ IF fnOut = NoCall THEN FALSE ELSE WalkOver(fnOut)
  /\ fnIn.tests = <<1>>
  /\ fnIn.h.children[2] = <<>>
  /\ fnOut.refreshed = {2, 3}
  /\ Len(fnOut.visited) = 3
  /\ \E t \in DOMAIN fnOut.titleMap :
       /\ fnOut.titleMap[t] = fnOut.visited[3]
       /\ fnIn.h.label[fnOut.visited[1]] = t

\* C17: (the claim, which the code does not meet) A step in which the
\* continuation of a fail event's location resolution runs while the scan of
\* its run is already settled attaches no diagnostic, sets no result and
\* writes no line to the log.
C17_NoMutationAfterSettle ==
  [][\A r \in Runs :
       (/\ outcome[r] # "none"
        /\ resolving'[r] # resolving[r]
        /\ resolving'[r] \subseteq resolving[r]) =>
         /\ results'[r] = results[r]
         /\ messages'[r] = messages[r]
         /\ log' = log]_vars

\* this step delivers a runner error to the scan of run r
RunnerErrorFor(r) == log' = Append(log, <<r, "error", "">>)
\* this step is the cancellation of run r
CancelOf(r) == ~cancelled[r] /\ cancelled'[r]

\* C18: The outcome of a scan is assigned in one step and never changed. A
\* runner error delivered while the scan is running writes its line to the
\* log and settles the scan as Errored; a cancellation while it is running
\* settles it as Skipped; a runner error delivered once the scan is settled
\* writes its line and leaves the outcome as it is. Errored is assigned only
\* by a runner error, Skipped only by a cancellation, by the check of the
\* token on entry or by an event that writes nothing to the log (end).
C18_FirstTriggerDecides ==
  [][\A r \in Runs :
       /\ outcome[r] # "none" => outcome'[r] = outcome[r]
       /\ (RunnerErrorFor(r) /\ Running(r)) => outcome'[r] = "Errored"
       /\ (CancelOf(r) /\ Running(r)) => outcome'[r] = "Skipped"
       /\ (outcome[r] = "none" /\ outcome'[r] = "Errored") => RunnerErrorFor(r)
       /\ (outcome[r] = "none" /\ outcome'[r] = "Skipped") =>
            \/ CancelOf(r)
            \/ cancelled[r] /\ pc[r] = "launching"
            \/ delivered' = delivered + 1 /\ log' = log]_vars
\* a run that was not cancelled settled as Skipped on end, did not show the
\* log, and a runner error delivered after the end was logged
C18_Witness ==
  /\ pc[1] = "done" /\ ~cancelled[1] /\ outcome[1] = "Skipped" /\ ~shown[1]
  /\ delivered = 2
  /\ log[Len(log)] = <<1, "error", "">>

\* a fail event of run r was matched to a case of the pending index (the
\* first event delivered for its title: a fail event for a title that an
\* earlier pass or fail event took out of the index returns at line 153),
\* the run was not cancelled and had no runner error, and its scan settled
\* on end
EndWithFailures(r) ==
  /\ pc[r] = "done" /\ outcome[r] = "Skipped" /\ ~cancelled[r]
  /\ \A i \in Lines : ~(log[i][1] = r /\ log[i][2] = "error")
  /\ \E t \in Titles : MatchedFail(r, t)

\* C19 as stated: a run that reached end after a matched fail event shows
\* the log once its scan has settled.
C19_ShownAfterFailures ==
  \A r \in Runs : EndWithFailures(r) => shown[r]

\* C19: A run that reached end after a matched fail event settles as
\* Skipped like any other run that reached end, and does not show the log:
\* failures alone never surface it.
C19_NotShownAfterFailures ==
  \A r \in Runs : EndWithFailures(r) => ~shown[r]
\* a run that ended with a case set to Failed and its diagnostic attached,
\* and did not show the log
C19_Witness ==
  \E r \in Runs :
    /\ EndWithFailures(r)
    /\ ~shown[r]
    /\ \E i \in DOMAIN results[r] : results[r][i][2] = "Failed"
    /\ messages[r] # <<>>

\* C20: When every launch succeeds and every running scan gets an end
\* event, a runner error or a cancellation, every run request made has in
\* the end written its banner and settled its scan. And a scan is settled
\* by nothing else: its outcome is assigned only by a cancellation, by the
\* check of a cancelled token on entry or by a delivered event; and the work
\* of a run queued behind another starts only when that run has settled its
\* scan and finished.
C20_EveryRunSettles ==
  /\ \A r \in Runs : (pc[r] # "idle") ~> (HasBanner(r) /\ outcome[r] # "none")
  /\ [][\A r \in Runs :
          /\ (outcome[r] = "none" /\ outcome'[r] # "none") =>
               \/ CancelOf(r)
               \/ cancelled[r] /\ pc[r] = "launching"
               \/ delivered' = delivered + 1
          /\ (pc[r] = "queued" /\ pc'[r] # "queued") =>
               IF prev[r] = NoRun THEN TRUE
               ELSE pc[prev[r]] = "done" /\ outcome[prev[r]] # "none"]_vars
\* a run queued behind another wrote its banner and settled after it
C20_Witness ==
  \E r \in Runs :
    /\ prev[r] # NoRun
    /\ pc[r] = "done" /\ HasBanner(r) /\ outcome[r] # "none"
    /\ pc[prev[r]] = "done"
====
